---- MODULE Spec2Model ----
(***************************************************************************)
(* Quick open of xi-editor's core-lib (rust/core-lib/src/quick_open.rs):   *)
(* the workspace root resolution, the candidate index, the recursive fuzzy *)
(* matcher with its scoring, and the result list.                          *)
(*                                                                         *)
(* A string is a sequence of one-character strings, a path is a sequence   *)
(* of components (each a string); << >> is the path "/".                   *)
(***************************************************************************)
EXTENDS Integers, Sequences, FiniteSets, TLC

\* ------------------------------------------------------------- bounds ----
\* Longest query typed by the user.
MaxQueryLen == 2
\* Most files present on the disk at one time.
MaxFiles == 2

\* ---------------------------------------------------------- constants ----
MATCH_LIMIT == 100
RECURSION_LIMIT == 10
SEQUENTIAL_BONUS == 16
SEPARATOR_BONUS == 16
CAMELCASE_BONUS == 16
FIRST_LETTER_BONUS == 16
LEADING_LETTER_PENALTY == 5
MAX_LEADING_LETTER_PENALTY == 15
UNMATCHED_LETTER_PENALTY == 1
\* let mut score: usize = 100 in calculate_score
STARTING_SCORE == 100

\* --------------------------------------------------------- characters ----
\* char::to_ascii_lowercase on the characters of the model.
to_ascii_lowercase(c) ==
    IF c = "A" THEN "a" ELSE IF c = "B" THEN "b" ELSE c

\* char::is_lowercase / char::is_uppercase on the characters of the model.
is_lowercase(c) == c \in {"a", "b", "x", "p", "q", "s"}

is_uppercase(c) == c \in {"A", "B"}

\* usize::saturating_sub
saturating_sub(a, b) == IF b > a THEN 0 ELSE a - b

\* text.chars().nth(k): Some(char) when k is inside the text, else None.
nth_is_some(text, k) == k >= 0 /\ k < Len(text)

nth(text, k) == text[k + 1]

\* &text[1..]
Tail1(text) == SubSeq(text, 2, Len(text))

\* ------------------------------------------------------ calculate_score --
\* The leading-letter and unmatched-letter penalties (taken from the first
\* match index) applied to the starting score.
AfterPenalties(first_index) ==
    LET raw == LEADING_LETTER_PENALTY * first_index
        penalty == IF raw > MAX_LEADING_LETTER_PENALTY
                   THEN MAX_LEADING_LETTER_PENALTY ELSE raw
    IN saturating_sub(saturating_sub(STARTING_SCORE, penalty),
                      first_index * UNMATCHED_LETTER_PENALTY)

\* The value of previous_match_index that iteration i of the loop compares
\* with: it starts at 0 and is overwritten only when i > 0.
previous_match_index(match_indices, i) ==
    IF i > 0 THEN match_indices[i] ELSE 0

\* The condition under which iteration i adds SEQUENTIAL_BONUS.
IsSequential(match_indices, i) ==
    match_indices[i + 1] = previous_match_index(match_indices, i) + 1

\* The camel-case and separator bonuses of one matched character.
NeighbourBonus(text, current_match_index) ==
    LET neighbour == nth(text, current_match_index - 1)
        current_char == nth(text, current_match_index)
    IN (IF is_lowercase(neighbour) /\ is_uppercase(current_char)
        THEN CAMELCASE_BONUS ELSE 0)
       + (IF neighbour = "_" \/ neighbour = "-" THEN SEPARATOR_BONUS ELSE 0)

\* The loop `for i in 0..matched_count` from iteration i on, with the score
\* accumulated so far.  [panic |-> TRUE] is the index-out-of-bounds abort of
\* match_indices[i].
RECURSIVE ScoreLoop(_, _, _, _, _)
ScoreLoop(text, matched_count, match_indices, i, score) ==
    IF i >= matched_count THEN [panic |-> FALSE, score |-> score]
    ELSE IF i >= Len(match_indices) THEN [panic |-> TRUE, score |-> 0]
    ELSE
      LET current_match_index == match_indices[i + 1]
          s1 == IF IsSequential(match_indices, i)
                THEN score + SEQUENTIAL_BONUS ELSE score
      IN IF current_match_index > 0
         THEN IF nth_is_some(text, current_match_index - 1)
                 /\ nth_is_some(text, current_match_index)
              THEN ScoreLoop(text, matched_count, match_indices, i + 1,
                             s1 + NeighbourBonus(text, current_match_index))
              ELSE [panic |-> FALSE, score |-> s1]
         ELSE ScoreLoop(text, matched_count, match_indices, i + 1,
                        s1 + FIRST_LETTER_BONUS)

\* calculate_score: match_indices[0] of an empty vector aborts.
calculate_score(text, matched_count, match_indices) ==
    IF Len(match_indices) = 0 THEN [panic |-> TRUE, score |-> 0]
    ELSE ScoreLoop(text, matched_count, match_indices, 0,
                   AfterPenalties(match_indices[1]))

\* ---------------------------------------------------------- fuzzy_match --
\* Option<&Vec<usize>>
None == [some |-> FALSE, v |-> << >>]

Some(v) == [some |-> TRUE, v |-> v]

\* What a call of fuzzy_match produces: the returned (indices, score), or an
\* abort; `calls` collects the arguments of every calculate_score call made.
Return(indices, score, calls) ==
    [panic |-> FALSE, indices |-> indices, score |-> score, calls |-> calls]

Abort(calls) ==
    [panic |-> TRUE, indices |-> << >>, score |-> 0, calls |-> calls]

ScoreCall(text, matched_count, match_indices) ==
    [text |-> text, matched_count |-> matched_count, match_indices |-> match_indices]

\* The early return at the head of fuzzy_match (recursion_count is the
\* already incremented counter).
BaseCaseKeepsEmptyPattern(pattern, recursion_count) ==
    recursion_count >= RECURSION_LIMIT

BaseCase(pattern, recursion_count) ==
    recursion_count >= RECURSION_LIMIT \/ Len(pattern) = 0

\* The locals of fuzzy_match at the head of a loop iteration.
Locals(mi, pci, tci, mc, first, best_score, best_indices, rmatched, calls) ==
    [match_indices |-> mi, pattern_current_idx |-> pci, text_current_idx |-> tci,
     matched_count |-> mc, first_match |-> first,
     best_recursive_score |-> best_score,
     best_recursive_match_indices |-> best_indices,
     recursive_matched |-> rmatched, calls |-> calls]

RECURSIVE fuzzy_match(_, _, _, _, _, _, _, _)
RECURSIVE MatchLoop(_, _, _, _, _, _)

\* The code after the while loop: the score of this level's own alignment
\* and the choice between it and the best recursive answer.
Finish(pattern, text, l) ==
    LET matched == l.pattern_current_idx = Len(pattern)
        own == IF matched
               THEN calculate_score(text, l.matched_count, l.match_indices)
               ELSE [panic |-> FALSE, score |-> 0]
        calls == IF matched
                 THEN l.calls \cup
                      {ScoreCall(text, l.matched_count, l.match_indices)}
                 ELSE l.calls
    IN IF own.panic THEN Abort(calls)
       ELSE IF l.recursive_matched
               /\ (~matched \/ l.best_recursive_score > own.score)
       THEN Return(l.best_recursive_match_indices, l.best_recursive_score, calls)
       ELSE IF matched THEN Return(l.match_indices, own.score, calls)
       ELSE Return(<< >>, 0, calls)

\* Iteration i (0-based) of `while let (Some(pat_char), Some(text_char))`:
\* both iterators advance on every iteration, so iteration i compares
\* pattern[i] with text[i].
MatchLoop(pattern, text, original_match_indices, recursion_count, i, l) ==
    IF i >= Len(pattern) \/ i >= Len(text) THEN Finish(pattern, text, l)
    ELSE IF to_ascii_lowercase(pattern[i + 1]) # to_ascii_lowercase(text[i + 1])
    THEN MatchLoop(pattern, text, original_match_indices, recursion_count, i + 1,
                   [l EXCEPT !.text_current_idx = @ + 1])
    ELSE IF l.matched_count >= MATCH_LIMIT THEN Return(<< >>, 0, l.calls)
    ELSE IF l.first_match /\ original_match_indices.some
            /\ l.matched_count > Len(original_match_indices.v)
    THEN Abort(l.calls)
    ELSE
      LET copy == l.first_match /\ original_match_indices.some
          mi == IF copy
                THEN SubSeq(original_match_indices.v, 1, l.matched_count)
                ELSE l.match_indices
          first == IF copy THEN FALSE ELSE l.first_match
          rec == fuzzy_match(pattern, Tail1(text), Some(mi), << >>,
                             l.pattern_current_idx, l.text_current_idx + 1,
                             l.matched_count, recursion_count)
          better == rec.score > l.best_recursive_score
      IN IF rec.panic THEN Abort(l.calls \cup rec.calls)
         ELSE MatchLoop(pattern, text, original_match_indices, recursion_count,
                i + 1,
                Locals(Append(mi, l.text_current_idx),
                       l.pattern_current_idx + 1,
                       l.text_current_idx + 1,
                       l.matched_count + 1,
                       first,
                       IF better THEN rec.score ELSE l.best_recursive_score,
                       IF better THEN rec.indices
                       ELSE l.best_recursive_match_indices,
                       l.recursive_matched \/ better,
                       l.calls \cup rec.calls))

fuzzy_match(pattern, text, original_match_indices, match_indices, pattern_current_idx, text_current_idx, matched_count, recursion_count) ==
    IF BaseCase(pattern, recursion_count + 1) THEN Return(<< >>, 0, {})
    ELSE MatchLoop(pattern, text, original_match_indices, recursion_count + 1, 0,
                   Locals(match_indices, pattern_current_idx, text_current_idx,
                          matched_count, TRUE, 0, << >>, FALSE, {}))

\* The call made by initiate_fuzzy_match for one file name.
FuzzyTop(query, item_name) ==
    fuzzy_match(query, item_name, None, << >>, 0, 0, 0, 0)

\* -------------------------------------------------------------- paths ----
\* PathBuf::new(): the empty path, which is no directory.
EmptyPath == << << >> >>

\* Path::parent: None for "/" and for the empty path.
HasParent(path) == path # EmptyPath /\ Len(path) > 0

Parent(path) == SubSeq(path, 1, Len(path) - 1)

\* Path::file_name of a path that has one.
file_name(path) == path[Len(path)]

\* item.strip_prefix(&self.root) is Ok.
HasPrefix(path, base) ==
    base # EmptyPath /\ Len(base) <= Len(path) /\ SubSeq(path, 1, Len(base)) = base

strip_prefix(path, base) == SubSeq(path, Len(base) + 1, Len(path))

\* ------------------------------------------------------- the file system --
DirP == << <<"p">> >>

DirPS == << <<"p">>, <<"s">> >>

DirQ == << <<"q">> >>

\* The files that may exist on the disk.
FileUniverse ==
    { DirPS \o << <<"a", "a", "a">> >>,
      DirP \o << <<"b", "a", "a">> >>,
      DirP \o << <<"a", "a", "b">> >>,
      DirPS \o << <<"x", "a", "x", "b", "x", "a", "b">> >>,
      DirQ \o << <<"a", "B">> >> }

\* The directories that may hold a ".git" entry.
GitCandidates == {DirP, DirPS}

\* The queries the user may type.
QueryChars == {"a", "b"}

Queries == UNION {[1..n -> QueryChars] : n \in 0..MaxQueryLen}

\* fuzzy_match of every query against every file name of the model, computed
\* once: fuzzy_match reads nothing but its arguments.
MatchTable ==
    [query \in Queries |->
        [f \in FileUniverse |-> FuzzyTop(query, file_name(f))]]

\* The paths initialize_workspace_matches may be called with.
Folders ==
    { DirPS \o << <<"a", "a", "a">> >>,
      DirP \o << <<"b", "a", "a">> >>,
      << >> }

VARIABLES
    files,                 \* the files on the disk
    git,                   \* the directories holding a ".git" entry
    root,                  \* QuickOpen.root
    workspace_items,       \* QuickOpen.workspace_items
    current_fuzzy_results, \* QuickOpen.current_fuzzy_results
    status,                \* "ok", or "panicked" once a call has aborted
    call,                  \* the most recent call: its name, the query of a match
                           \* pass, whether a workspace call re-indexed
    score_calls            \* the calculate_score calls of the latest match pass

vars == <<files, git, root, workspace_items, current_fuzzy_results, status, call, score_calls>>

Call(op, query, reindexed) == [op |-> op, query |-> query, reindexed |-> reindexed]

\* ------------------------------------------ initialize_workspace_matches --
\* The vector `parents` after the while loop, nearest ancestor first,
\* starting from the value of new_root.
RECURSIVE ParentsFrom(_)
ParentsFrom(new_root) ==
    IF HasParent(new_root)
    THEN <<Parent(new_root)>> \o ParentsFrom(Parent(new_root))
    ELSE << >>

\* folder.parent().unwrap_or(folder)
StartDir(folder) == IF HasParent(folder) THEN Parent(folder) ELSE folder

\* new_root after the while loop: the last parent pushed, or the start.
TopMost(folder) ==
    LET parents == ParentsFrom(StartDir(folder))
    IN IF Len(parents) = 0 THEN StartDir(folder) ELSE parents[Len(parents)]

\* The for loop over `parents`: the first one with a ".git" entry.
RECURSIVE FirstWithGit(_, _, _)
FirstWithGit(parents, gitDirs, default) ==
    IF Len(parents) = 0 THEN default
    ELSE IF parents[1] \in gitDirs THEN parents[1]
    ELSE FirstWithGit(Tail(parents), gitDirs, default)

\* new_root as compared with self.root.
ResolveRoot(folder, gitDirs) ==
    FirstWithGit(ParentsFrom(StartDir(folder)), gitDirs, TopMost(folder))

\* `if new_root != self.root`
NeedsReindexAlways(new_root, old_root) == TRUE

NeedsReindex(new_root, old_root) == new_root # old_root

\* The orders in which Walk::new(root) may yield the files below root.
Orderings(S) ==
    {o \in [1..Cardinality(S) -> S] : \A i, j \in 1..Cardinality(S) : o[i] = o[j] => i = j}

Walk(walk_root, disk) ==
    Orderings({f \in disk : HasPrefix(f, walk_root)})

\* The for_each closure over the walk: push the paths not yet contained.
RECURSIVE IndexWalk(_, _)
IndexWalk(walk, items) ==
    IF Len(walk) = 0 THEN items
    ELSE IndexWalk(Tail(walk),
                   IF \E k \in 1..Len(items) : items[k] = walk[1]
                   THEN items ELSE Append(items, walk[1]))

InitializeWorkspaceMatches(folder) ==
    /\ status = "ok"
    /\ LET new_root == ResolveRoot(folder, git)
       IN IF NeedsReindex(new_root, root)
          THEN /\ root' = new_root
               /\ \E walk \in Walk(new_root, files) :
                      workspace_items' = IndexWalk(walk, << >>)
          ELSE UNCHANGED <<root, workspace_items>>
    /\ call' = Call("initialize_workspace_matches", << >>,
                     NeedsReindex(ResolveRoot(folder, git), root))
    /\ UNCHANGED <<files, git, current_fuzzy_results, status, score_calls>>

\* ----------------------------------------------- get_quick_open_results --
\* Insertion of r into a list sorted by descending score, after the entries
\* of equal score (sort_by is stable).
RECURSIVE InsertDesc(_, _)
InsertDesc(sorted, r) ==
    IF Len(sorted) = 0 THEN <<r>>
    ELSE IF sorted[1].score >= r.score
    THEN <<sorted[1]>> \o InsertDesc(Tail(sorted), r)
    ELSE <<r>> \o sorted

RECURSIVE SortFrom(_, _)
SortFrom(rest, sorted) ==
    IF Len(rest) = 0 THEN sorted
    ELSE SortFrom(Tail(rest), InsertDesc(sorted, rest[1]))

SortUnsorted(results) == results

\* sort_by(|a, b| b.score.cmp(&a.score))
SortByScoreDesc(results) == SortFrom(results, << >>)

GetQuickOpenResults ==
    /\ status = "ok"
    /\ current_fuzzy_results' = SortByScoreDesc(current_fuzzy_results)
    /\ call' = Call("get_quick_open_results", << >>, FALSE)
    /\ UNCHANGED <<files, git, root, workspace_items, status, score_calls>>

\* ------------------------------------------------- initiate_fuzzy_match --
FuzzyResult(result_name, score, match_indices) ==
    [result_name |-> result_name, score |-> score, match_indices |-> match_indices]

\* Vec::contains under FuzzyResult's PartialEq: equality of result_name.
Contains(results, r) ==
    \E k \in 1..Len(results) : results[k].result_name = r.result_name

RECURSIVE SumScores(_)
SumScores(results) ==
    IF Len(results) = 0 THEN 0 ELSE results[1].score + SumScores(Tail(results))

\* A pass that drops the results scoring below the mean of those kept so far.
KeepsAtOrAboveMean(results, r) ==
    /\ ~Contains(results, r)
    /\ r.score * Len(results) >= SumScores(results)

\* Whether the pass pushes the result r of a matching item.

Keeps(results, r) == ~Contains(results, r)

\* The pass over workspace_items from item i on (1-based).
RECURSIVE MatchPass(_, _, _, _, _, _)
MatchPass(items, pass_root, query, i, results, calls) ==
    IF i > Len(items) THEN [panic |-> FALSE, results |-> results, calls |-> calls]
    ELSE
      LET item == items[i]
          m == MatchTable[query][item]
          all == calls \cup m.calls
      IN IF Len(item) = 0
         THEN MatchPass(items, pass_root, query, i + 1, results, calls)
         ELSE IF m.panic THEN [panic |-> TRUE, results |-> results, calls |-> all]
         ELSE IF Len(m.indices) = 0 \/ ~HasPrefix(item, pass_root)
         THEN MatchPass(items, pass_root, query, i + 1, results, all)
         ELSE
           LET r == FuzzyResult(strip_prefix(item, pass_root), m.score, m.indices)
           IN MatchPass(items, pass_root, query, i + 1,
                        IF Keeps(results, r) THEN Append(results, r) ELSE results,
                        all)

InitiateFuzzyMatch(query) ==
    /\ status = "ok"
    /\ \E pass \in {MatchPass(workspace_items, root, query, 1, << >>, {})} :
          /\ current_fuzzy_results' = pass.results
          /\ score_calls' = pass.calls
          /\ status' = IF pass.panic THEN "panicked" ELSE "ok"
    /\ call' = Call("initiate_fuzzy_match", query, FALSE)
    /\ UNCHANGED <<files, git, root, workspace_items>>

\* QuickOpen::new(), on any disk of at most MaxFiles files.
Init ==
    /\ files \in {S \in SUBSET FileUniverse : Cardinality(S) <= MaxFiles}
    /\ git \in SUBSET GitCandidates
    /\ root = EmptyPath
    /\ workspace_items = << >>
    /\ current_fuzzy_results = << >>
    /\ status = "ok"
    /\ call = Call("new", << >>, FALSE)
    /\ score_calls = {}

Next ==
    \/ \E folder \in Folders : InitializeWorkspaceMatches(folder)
    \/ \E query \in Queries : InitiateFuzzyMatch(query)
    \/ GetQuickOpenResults

Spec == Init /\ [][Next]_vars

\* ======================================================= properties ======
\* The state right after a completed call of initiate_fuzzy_match.
AfterPass == call.op = "initiate_fuzzy_match"

AfterCompletedPass == AfterPass /\ status = "ok"

\* The path of a candidate relative to the current root.
RelPath(item) == strip_prefix(item, root)

\* The entries of the result list named like the candidate.
ResultsFor(item) ==
    {k \in 1..Len(current_fuzzy_results) :
        current_fuzzy_results[k].result_name = RelPath(item)}

\* The positions (0-based) of the right-most in-order occurrence of the
\* query in the text, aligned from the last character backward, ignoring
\* ASCII case; << >> when the query is no subsequence of the text.
RECURSIVE RightmostFrom(_, _, _, _, _)
RightmostFrom(query, text, qi, ti, acc) ==
    IF qi = 0 THEN acc
    ELSE IF ti = 0 THEN << >>
    ELSE IF to_ascii_lowercase(query[qi]) = to_ascii_lowercase(text[ti])
    THEN RightmostFrom(query, text, qi - 1, ti - 1, <<ti - 1>> \o acc)
    ELSE RightmostFrom(query, text, qi, ti - 1, acc)

RightmostMatch(query, text) ==
    RightmostFrom(query, text, Len(query), Len(text), << >>)

IsSubsequence(query, text) ==
    Len(query) = 0 \/ Len(RightmostMatch(query, text)) > 0

\* The indices are one position of the text per query character, strictly
\* increasing, each holding the query's character up to ASCII case.
WitnessesMatch(query, text, indices) ==
    /\ Len(indices) = Len(query)
    /\ \A k \in 1..Len(indices) :
          /\ indices[k] >= 0
          /\ indices[k] < Len(text)
          /\ k > 1 => indices[k - 1] < indices[k]
          /\ k <= Len(query)
             => to_ascii_lowercase(text[indices[k] + 1]) = to_ascii_lowercase(query[k])

\* C1: completeness of matching.  After a completed pass with a non-empty
\* query, every candidate whose file name holds the query's characters in
\* order has an entry in the result list, and the positions of that entry
\* are those of the right-most occurrence (query "ab", text "xaxbxab":
\* positions 5 and 6).
C1_Completeness ==
    (AfterCompletedPass /\ Len(call.query) > 0) =>
        \A i \in 1..Len(workspace_items) :
            IsSubsequence(call.query, file_name(workspace_items[i])) =>
                \E k \in ResultsFor(workspace_items[i]) :
                    current_fuzzy_results[k].match_indices
                        = RightmostMatch(call.query, file_name(workspace_items[i]))

\* C2: soundness of matching.  After a completed pass every entry of the
\* result list belongs to a candidate of which the query is an in-order
\* subsequence, and its match_indices witness that: one valid position of
\* the file name per query character, strictly increasing, each holding
\* the query's character up to ASCII case.
C2_Soundness ==
    AfterCompletedPass =>
        \A k \in 1..Len(current_fuzzy_results) :
            \E i \in 1..Len(workspace_items) :
                /\ RelPath(workspace_items[i]) = current_fuzzy_results[k].result_name
                /\ WitnessesMatch(call.query, file_name(workspace_items[i]),
                                  current_fuzzy_results[k].match_indices)

\* C3: no input is fatal.  No call of initiate_fuzzy_match aborts,
\* whatever the query and the candidates.
C3_NeverAborts == status # "panicked"

\* C4: an empty query yields empty results.  A pass with the empty query
\* completes without aborting and leaves the result list empty, whatever
\* the candidates and the earlier results, and get_quick_open_results right
\* after it returns the empty list.
C4_EmptyQueryEmptyResults ==
    /\ []((AfterPass /\ call.query = << >>)
            => (status = "ok" /\ current_fuzzy_results = << >>))
    /\ [][(AfterPass /\ call.query = << >> /\ GetQuickOpenResults)
            => current_fuzzy_results' = << >>]_vars

\* An empty-query pass has run over a non-empty candidate list.
C4_Witness ==
    /\ AfterPass
    /\ call.query = << >>
    /\ Len(workspace_items) > 1
    /\ current_fuzzy_results = << >>

\* The root the documented resolution chooses: the nearest ancestor with a
\* ".git" entry, the file's parent directory included, and the top-most
\* ancestor when there is none.
NearestGitRoot(folder, gitDirs) ==
    FirstWithGit(<<StartDir(folder)>> \o ParentsFrom(StartDir(folder)),
                 gitDirs, TopMost(folder))

\* C5: root resolution.  Every call of initialize_workspace_matches leaves
\* as root the nearest ancestor of the file holding a ".git" entry, the
\* file's parent directory included, or the top-most ancestor when no
\* ancestor holds one.
C5_NearestGitRoot ==
    [][\A folder \in Folders :
          InitializeWorkspaceMatches(folder) => root' = NearestGitRoot(folder, git)]_vars

\* The scores fuzzy_match computed for the first k candidates of the pass.
RECURSIVE ScoresSoFar(_, _)
ScoresSoFar(query, k) ==
    IF k = 0 THEN << >>
    ELSE LET m == MatchTable[query][workspace_items[k]]
         IN IF Len(m.indices) > 0
            THEN Append(ScoresSoFar(query, k - 1), m.score)
            ELSE ScoresSoFar(query, k - 1)

RECURSIVE SumSeq(_)
SumSeq(xs) == IF Len(xs) = 0 THEN 0 ELSE xs[1] + SumSeq(Tail(xs))

\* The candidate at position k matched and scored below the mean of the
\* scores computed up to it.
BelowRunningMean(query, k) ==
    LET m == MatchTable[query][workspace_items[k]]
        scores == ScoresSoFar(query, k)
    IN /\ Len(m.indices) > 0
       /\ m.score * Len(scores) < SumSeq(scores)

FirstAbort(query) ==
    LET aborting == {k \in 1..Len(workspace_items) :
                        MatchTable[query][workspace_items[k]].panic}
    IN IF aborting = {} THEN Len(workspace_items) + 1
       ELSE CHOOSE k \in aborting : \A j \in aborting : k <= j

NoDuplicates(seq) ==
    \A i, j \in 1..Len(seq) : seq[i] = seq[j] => i = j

\* C7: re-indexing happens only on a root change and keeps the candidates
\* unique.  A call of initialize_workspace_matches that resolves the cached
\* root (the root is the same after the call as before it) leaves
\* workspace_items as it is, same items in the same order; one that
\* resolves another root replaces the candidates by the files below the
\* new root; initiate_fuzzy_match changes neither root nor workspace_items;
\* workspace_items never holds a path twice.
C7_ReindexOnlyOnRootChange ==
    /\ [](NoDuplicates(workspace_items))
    /\ [][(call'.op = "initialize_workspace_matches") =>
            IF root' = root
            THEN workspace_items' = workspace_items
            ELSE {workspace_items'[k] : k \in 1..Len(workspace_items')}
                    = {f \in files : HasPrefix(f, root')}]_vars
    /\ [][(call'.op = "initiate_fuzzy_match")
            => UNCHANGED <<root, workspace_items>>]_vars

\* A call that resolved the cached root has returned with several
\* candidates indexed.
C7_Witness ==
    /\ call.op = "initialize_workspace_matches"
    /\ ~call.reindexed
    /\ Len(workspace_items) > 1

SortedByScoreDesc(results) ==
    \A k \in 1..(Len(results) - 1) : results[k].score >= results[k + 1].score

\* C8: ranked output.  get_quick_open_results leaves (and returns) the
\* result list sorted by descending score, with exactly the entries it held
\* before the call, and no two entries of the result list ever carry the
\* same result_name.
C8_RankedOutput ==
    /\ []((call.op = "get_quick_open_results")
            => SortedByScoreDesc(current_fuzzy_results))
    /\ [](\A i, j \in 1..Len(current_fuzzy_results) :
            current_fuzzy_results[i].result_name = current_fuzzy_results[j].result_name
                => i = j)
    /\ [][GetQuickOpenResults =>
            /\ Len(current_fuzzy_results') = Len(current_fuzzy_results)
            /\ {current_fuzzy_results'[k] : k \in 1..Len(current_fuzzy_results')}
                 = {current_fuzzy_results[k] : k \in 1..Len(current_fuzzy_results)}]_vars

\* get_quick_open_results has returned two results of different scores, the
\* better one found later in the candidate list than the other.
C8_Witness ==
    /\ call.op = "get_quick_open_results"
    /\ Len(current_fuzzy_results) > 1
    /\ current_fuzzy_results[1].score > current_fuzzy_results[2].score
    /\ \E i, j \in 1..Len(workspace_items) :
          /\ i < j
          /\ 1 \in ResultsFor(workspace_items[j])
          /\ 2 \in ResultsFor(workspace_items[i])

\* C9: the sequential bonus.  In every call of calculate_score the first
\* matched character (iteration 0 of the loop) does not get
\* SEQUENTIAL_BONUS, wherever in the text it was found: it has no previous
\* matched character.
C9_FirstMatchNotSequential ==
    \A c \in score_calls :
        (c.matched_count > 0 /\ Len(c.match_indices) > 0)
            => ~IsSequential(c.match_indices, 0)

\* C10: no stale results.  Every entry get_quick_open_results returns names
\* a file of the current candidate set, relative to the current root.
C10_NoStaleResults ==
    (call.op = "get_quick_open_results") =>
        \A k \in 1..Len(current_fuzzy_results) :
            \E i \in 1..Len(workspace_items) :
                /\ HasPrefix(workspace_items[i], root)
                /\ k \in ResultsFor(workspace_items[i])

====
